---- MODULE Spec2Model ----
(***************************************************************************)
(* Model of volpro.py: VolatilityAnalyzer.analyze_memory_dump, the worker  *)
(* tasks it submits (run_command), ProgressManager.update and              *)
(* generate_markdown.                                                      *)
(*                                                                         *)
(* Text is modelled as a sequence of tokens.  A token is an atomic piece   *)
(* of text that contains none of the separators the program splits on;     *)
(* the separators ("-", ":", ",", "(", ")", " ", "\n") are tokens of their *)
(* own.  A file holds a sequence of bytes; the byte "X" stands for a byte  *)
(* that is not valid UTF-8, every other byte is the encoding of the token  *)
(* of the same name.                                                       *)
(***************************************************************************)
EXTENDS Integers, Sequences, FiniteSets, TLC

(* ------------------------------ bounds --------------------------------- *)
\* number of lines of tasklist.cfg
MaxLines == 2
\* number of leading entries of the hard-coded filter list that are modelled
MaxFilterTerms == 1

(* --------------------------- text primitives --------------------------- *)
\* Python's None, kept apart from every string
None == <<"<None>">>

\* str(x) as used by an f-string
Str(x) == IF x = None THEN <<"None">> ELSE x

RECURSIVE Split(_, _)
\* s.split(sep): the pieces of s between the occurrences of sep
Split(s, sep) ==
    IF \E i \in 1..Len(s) : s[i] = sep
    THEN LET i == CHOOSE k \in 1..Len(s) :
                      s[k] = sep /\ \A j \in 1..(k - 1) : s[j] # sep
         IN  <<SubSeq(s, 1, i - 1)>> \o Split(SubSeq(s, i + 1, Len(s)), sep)
    ELSE <<s>>

Whitespace == {" ", "\n"}

RECURSIVE Strip(_)
\* s.strip(): s without leading and trailing whitespace
Strip(s) ==
    IF s = <<>> THEN s
    ELSE IF s[1] \in Whitespace THEN Strip(Tail(s))
    ELSE IF s[Len(s)] \in Whitespace THEN Strip(SubSeq(s, 1, Len(s) - 1))
    ELSE s

\* "tok" in s, for a one-token needle
Contains(s, tok) == \E i \in 1..Len(s) : s[i] = tok

\* list.index(x); 0 stands for ValueError
Index(list, x) ==
    IF \E i \in 1..Len(list) : list[i] = x
    THEN CHOOSE i \in 1..Len(list) :
             list[i] = x /\ \A j \in 1..(i - 1) : list[j] # x
    ELSE 0

RECURSIVE Join(_, _)
\* sep.join(list)
Join(list, sep) ==
    IF list = <<>> THEN <<>>
    ELSE IF Len(list) = 1 THEN list[1]
    ELSE list[1] \o <<sep>> \o Join(Tail(list), sep)

RECURSIVE SeqsUpTo(_, _)
\* all sequences over S of length at most n
SeqsUpTo(S, n) ==
    IF n = 0 THEN {<<>>}
    ELSE LET shorter == SeqsUpTo(S, n - 1)
         IN  shorter \cup {Append(s, x) : s \in shorter, x \in S}

(* ------------------------------ encoding ------------------------------- *)
InvalidByte == "X"

RECURSIVE DecodeIgnore(_)
\* bytes.decode("UTF-8", errors="ignore"): invalid bytes are dropped
DecodeIgnore(b) ==
    IF b = <<>> THEN <<>>
    ELSE IF b[1] = InvalidByte THEN DecodeIgnore(Tail(b))
    ELSE <<b[1]>> \o DecodeIgnore(Tail(b))

\* whether a strict UTF-8 decode of b succeeds
DecodesStrict(b) == ~ Contains(b, InvalidByte)

\* str.encode("utf-8") of text (text never holds the invalid byte)
Encode(text) == text

(* ----------------------------- file system ----------------------------- *)
\* a directory is a set of [path, content] entries, at most one per path
Exists(dir, path) == \E f \in dir : f.path = path

ReadBytes(dir, path) == (CHOOSE f \in dir : f.path = path).content

\* Path.write_text(text, encoding='utf-8'): create or replace
WriteText(dir, path, text) ==
    {f \in dir : f.path # path} \cup {[path |-> path, content |-> Encode(text)]}

\* one output file shared by every task
TaskFileShared(task_name) == <<"output", ".txt">>

\* output_path / f"{task_name}.txt"
TaskFile(task_name) == task_name \o <<".txt">>

\* output_path / "summary.md"
SummaryFile == <<"summary.md">>

(* ------------------------- environment inputs -------------------------- *)
\* lines of tasklist.cfg as f.readlines() returns them: "<name>-<help>\n"
LinePslist == <<"pslist", "-", "Process list", "\n">>
LineFilescan == <<"filescan", "-", "File scan", "\n">>
\* a line without the separator
LineNoSeparator == <<"netscan", "\n">>

ConfigLines == {LinePslist, LineFilescan, LineNoSeparator}

\* tasklist.cfg: unreadable, or a file of at most MaxLines lines
Configs ==
    {[readable |-> FALSE, lines |-> <<>>]}
        \cup {[readable |-> TRUE, lines |-> l] : l \in SeqsUpTo(ConfigLines, MaxLines)}

\* value of --profile when it is given
GivenProfile == <<"Win7SP1x64">>

\* standard output of "vol.exe -f <dump> imageinfo", already decoded
InfoFound ==
    <<"INFO", "\n", " ", "Suggested Profile(s)", " ", ":", " ",
      "Win7SP1x64", ",", " ", "Win7SP0x64", "\n">>
InfoNoMarker == <<"INFO", "\n", "No suggestion", "\n">>
InfoNoColon == <<"INFO", "\n", "Suggested Profile(s)", "\n">>

\* what subprocess.run(imageinfo) does: raise, or return one of the outputs
ImageInfoResults ==
    {[raised |-> TRUE, output |-> <<>>]}
        \cup {[raised |-> FALSE, output |-> o] :
                  o \in {InfoFound, InfoNoMarker, InfoNoColon}}

\* byte strings an invocation may write to its standard output: nothing,
\* valid UTF-8, other valid UTF-8 followed by an invalid byte
Stdouts == {<<>>, <<"a">>, <<"b", InvalidByte>>}

\* what subprocess.run(command, timeout=self.timeout, shell=True) does:
\* raise TimeoutExpired, raise another exception, or return the bytes
\* captured from standard output
RunResults ==
    {[kind |-> "timeout", stdout |-> <<>>], [kind |-> "error", stdout |-> <<>>]}
        \cup {[kind |-> "completed", stdout |-> b] : b \in Stdouts}

NoResult == [kind |-> "none", stdout |-> <<>>]

\* memorydump_path
memorydump_path == <<"/data/mem.img">>

\* the output directory when the run starts: empty, or holding pslist.txt
\* or filescan.txt left by an earlier run that was interrupted before its
\* report, with text the program wrote or with bytes that are not UTF-8
InitialDirs ==
    { {},
      {[path |-> TaskFile(<<"pslist">>), content |-> <<"o">>]},
      {[path |-> TaskFile(<<"filescan">>), content |-> <<"o">>]},
      {[path |-> TaskFile(<<"pslist">>), content |-> <<InvalidByte>>]} }

(* --------------------------- profile detection ------------------------- *)
\* the loop over output.split("\n") that looks for the marker phrase;
\* ok = FALSE stands for the IndexError of line.split(":")[1]
ExtractProfile(output, profile) ==
    LET lines == Split(output, "\n")
        marked == {i \in 1..Len(lines) : Contains(lines[i], "Suggested Profile(s)")}
    IN  IF marked = {} THEN [ok |-> TRUE, profile |-> profile]
        ELSE LET i == CHOOSE k \in marked : \A j \in marked : k <= j
                 parts == Split(lines[i], ":")
             IN  IF Len(parts) < 2 THEN [ok |-> FALSE, profile |-> profile]
                 ELSE [ok |-> TRUE,
                       profile |-> Strip(Split(Strip(parts[2]), ",")[1])]

(* ----------------------------- task catalog ---------------------------- *)
\* whether line.split('-')[0] and line.split('-')[1] both succeed
WellFormed(line) == Len(Split(line, "-")) >= 2

\* a reader that skips the lines it cannot split
ReadTaskConfigSkipping(cfg) ==
    LET good == SelectSeq(cfg.lines, WellFormed)
    IN  IF cfg.readable
        THEN [ok |-> TRUE,
              tasklist |-> [i \in 1..Len(good) |-> Split(good[i], "-")[1]],
              tasklist_help |-> [i \in 1..Len(good) |-> Split(good[i], "-")[2]]]
        ELSE [ok |-> FALSE, tasklist |-> <<>>, tasklist_help |-> <<>>]

\* the try block that reads tasklist.cfg; ok = FALSE stands for the return
\* of its except clause
ReadTaskConfig(cfg) ==
    IF cfg.readable /\ \A i \in 1..Len(cfg.lines) : WellFormed(cfg.lines[i])
    THEN [ok |-> TRUE,
          tasklist |-> [i \in 1..Len(cfg.lines) |-> Split(cfg.lines[i], "-")[1]],
          tasklist_help |-> [i \in 1..Len(cfg.lines) |-> Split(cfg.lines[i], "-")[2]]]
    ELSE [ok |-> FALSE, tasklist |-> <<>>, tasklist_help |-> <<>>]

\* the hard-coded filter terms and their help texts (the Chinese help
\* texts are written in ASCII)
AllFilterTerms == << <<"Desktop">>, <<"Downloads">>, <<".zip">>, <<"flag">>, <<"evtx">> >>
AllFilterHelp == << <<"zhuomian">>, <<"xiazai">>, <<"yasuobao">>, <<"flag">>, <<"rizhi">> >>

task_filescanlist == SubSeq(AllFilterTerms, 1, MaxFilterTerms)
task_filescanlist_help == SubSeq(AllFilterHelp, 1, MaxFilterTerms)

\* f"filescan({task_filescan})"
FilterTaskName(term) == <<"filescan", "(">> \o term \o <<")">>

\* a list of items in place of the dict: a repeated key is added again
DictSetAppend(d, key, value) == Append(d, [name |-> key, command |-> value])

\* tasks[key] = value on an insertion-ordered dict, kept as a sequence of
\* [name, command] items
DictSet(d, key, value) ==
    IF \E i \in 1..Len(d) : d[i].name = key
    THEN [i \in 1..Len(d) |->
              IF d[i].name = key THEN [name |-> key, command |-> value] ELSE d[i]]
    ELSE Append(d, [name |-> key, command |-> value])

CatalogCommand(profile, task) ==
    << <<"--profile=">> \o Str(profile), <<"-f">>, memorydump_path, task >>

FilterCommand(profile, term) ==
    << <<"--profile=">> \o Str(profile), <<"-f">>, memorydump_path,
       <<"filescan">>, <<"|">>, <<"findstr">>, term >>

RECURSIVE AddCatalogTasks(_, _, _)
AddCatalogTasks(d, tasklist, profile) ==
    IF tasklist = <<>> THEN d
    ELSE AddCatalogTasks(DictSet(d, Head(tasklist), CatalogCommand(profile, Head(tasklist))),
                         Tail(tasklist), profile)

RECURSIVE AddFilterTasks(_, _, _)
AddFilterTasks(d, terms, profile) ==
    IF terms = <<>> THEN d
    ELSE AddFilterTasks(DictSet(d, FilterTaskName(Head(terms)),
                                FilterCommand(profile, Head(terms))),
                        Tail(terms), profile)

\* the two loops that fill the tasks dict
BuildTasks(tasklist, terms, profile) ==
    AddFilterTasks(AddCatalogTasks(<<>>, tasklist, profile), terms, profile)

\* the oracle with the test inverted: names of the tasks that have a file
RECURSIVE get_completed_tasks(_, _)
get_completed_tasks(dir, d) ==
    IF d = <<>> THEN <<>>
    ELSE (IF Exists(dir, TaskFile(Head(d).name)) THEN <<Head(d).name>> ELSE <<>>)
             \o get_completed_tasks(dir, Tail(d))

\* get_remaining_tasks: names of the tasks without an output file
RECURSIVE get_remaining_tasks(_, _)
get_remaining_tasks(dir, d) ==
    IF d = <<>> THEN <<>>
    ELSE (IF Exists(dir, TaskFile(Head(d).name)) THEN <<>> ELSE <<Head(d).name>>)
             \o get_remaining_tasks(dir, Tail(d))

(* --------------------------- report assembly --------------------------- *)
\* the help-text lookup of one loop iteration; ok = FALSE stands for the
\* IndexError or ValueError the iteration's except clause catches
ResolveHelp(task_name, tasklist, tasklist_help, terms, terms_help) ==
    IF Contains(task_name, "filescan")
    THEN LET parts == Split(task_name, "(")
         IN  IF Len(parts) < 2 THEN [ok |-> FALSE, text |-> <<>>]
             ELSE LET scan_type == Split(parts[2], ")")[1]
                      index == Index(terms, scan_type)
                  IN  IF index = 0 THEN [ok |-> FALSE, text |-> <<>>]
                      ELSE [ok |-> TRUE, text |-> terms_help[index]]
    ELSE LET index == Index(tasklist, task_name)
         IN  IF index = 0 THEN [ok |-> FALSE, text |-> <<>>]
             ELSE [ok |-> TRUE, text |-> tasklist_help[index]]

\* f"# {task_name}\n## {help_text}"
Heading(task_name, help_text) ==
    <<"# ">> \o task_name \o <<"\n", "## ">> \o help_text

\* the fenced block that embeds the content of a task file (the fence of
\* three backquotes is written ~~~)
Fenced(content) == <<"~~~", "\n">> \o content \o <<"\n", "~~~", "\n">>

\* the "no data" placeholder entry , Chinese in the source
Placeholder == <<"*no data*", "\n">>

\* what one iteration of the loop in generate_markdown appends to markdown
SectionEntries(task_name, dir, tasklist, tasklist_help, terms, terms_help) ==
    LET help == ResolveHelp(task_name, tasklist, tasklist_help, terms, terms_help)
        task_file == TaskFile(task_name)
    IN  IF ~ help.ok THEN <<>>
        ELSE IF ~ Exists(dir, task_file)
             THEN <<Heading(task_name, help.text), Placeholder>>
        ELSE IF DecodesStrict(ReadBytes(dir, task_file))
             THEN <<Heading(task_name, help.text), Fenced(ReadBytes(dir, task_file))>>
        ELSE <<Heading(task_name, help.text)>>

(* ------------------------------ the state ------------------------------ *)
VARIABLES
    pc,              \* where analyze_memory_dump is, or how it ended
    config,          \* the file tasklist.cfg
    files0,          \* the output directory when the run started
    files,           \* the output directory
    profile,         \* the parameter profile, reassigned by the detection
    tasklist,        \* names parsed from tasklist.cfg
    tasklist_help,   \* help texts parsed from tasklist.cfg
    tasks,           \* the dict tasks, in insertion order
    st,              \* st[i]: where the worker of the i-th submitted task is
    result,          \* result[i]: what subprocess.run did for the i-th task
    outcome,         \* outcome[i]: the branch of run_command the task took
    completed_tasks, \* ProgressManager.completed_tasks
    total_tasks,     \* the total the ProgressManager was created with
    lock,            \* ProgressManager.lock: 0 when free, else the holder
    seen,            \* seen[i]: completed_tasks as read by the i-th worker
    markdown,        \* the list markdown of generate_markdown
    k,               \* index of the next task generate_markdown handles
    dumpfiles,       \* the parameter dumpfiles
    dumpfiles_location, \* the parameter dumpfiles_location
    tqdm_ok,         \* whether the tqdm calls of ProgressManager.update succeed
    exit_status,     \* exit status of the process, -1 while it runs
    remaining        \* what a call of get_remaining_tasks returned

vars == <<pc, config, files0, files, profile, tasklist, tasklist_help, tasks,
          st, result, outcome, completed_tasks, total_tasks, lock, seen,
          markdown, k, dumpfiles, dumpfiles_location, tqdm_ok, exit_status,
          remaining>>

envVars == <<config, files0, dumpfiles, dumpfiles_location, tqdm_ok>>
mainVars == <<exit_status, remaining>>
catalogVars == <<tasklist, tasklist_help, tasks, total_tasks>>
workerVars == <<st, result, outcome, completed_tasks, lock, seen>>
reportVars == <<markdown, k>>

\* value of --dumpfiles-location when it is given
GivenLocation == <<"0x3e0">>

\* analyze_memory_dump is entered, called by main with any arguments and
\* in any environment
Entry ==
    /\ pc = "start"
    /\ config \in Configs
    /\ files0 \in InitialDirs
    /\ files = files0
    /\ profile \in {None, GivenProfile}
    /\ dumpfiles \in BOOLEAN
    /\ dumpfiles_location \in {None, GivenLocation}
    /\ tqdm_ok \in BOOLEAN
    /\ exit_status = -1
    /\ remaining = <<>>
    /\ tasklist = <<>>
    /\ tasklist_help = <<>>
    /\ tasks = <<>>
    /\ st = <<>>
    /\ result = <<>>
    /\ outcome = <<>>
    /\ completed_tasks = 0
    /\ total_tasks = 0
    /\ lock = 0
    /\ seen = <<>>
    /\ markdown = <<>>
    /\ k = 0

\* the analysis runs: file-dump mode is off (the defaults of main) and the
\* progress bar works
Init ==
    /\ Entry
    /\ ~ dumpfiles
    /\ dumpfiles_location = None
    /\ tqdm_ok

(* ------------------------- analyze_memory_dump ------------------------- *)
\* output_path.mkdir(exist_ok=True): succeeds, or raises out of the method
Mkdir ==
    /\ pc = "start"
    /\ \E ok \in BOOLEAN : pc' = IF ok THEN "dumpfiles" ELSE "raised"
    /\ UNCHANGED <<envVars, files, profile, catalogVars, workerVars, reportVars>>
    /\ UNCHANGED mainVars

\* a file export whose failure does not end the method
DumpFilesFallThrough ==
    /\ pc = "dumpfiles"
    /\ IF dumpfiles /\ profile # None /\ dumpfiles_location # None
       THEN \E raised \in BOOLEAN :
                pc' = IF raised THEN "profile" ELSE "return_dump"
       ELSE pc' = "profile"
    /\ UNCHANGED <<envVars, files, profile, catalogVars, workerVars, reportVars>>
    /\ UNCHANGED mainVars

\* "if dumpfiles and profile and dumpfiles_location": run the one export
\* command and return, whether subprocess.run returns or raises
DumpFiles ==
    /\ pc = "dumpfiles"
    /\ IF dumpfiles /\ profile # None /\ dumpfiles_location # None
       THEN \E raised \in BOOLEAN : pc' = "return_dump"
       ELSE pc' = "profile"
    /\ UNCHANGED <<envVars, files, profile, catalogVars, workerVars, reportVars>>
    /\ UNCHANGED mainVars

\* "if not profile": run imageinfo and look for the suggested profile
GetProfile ==
    /\ pc = "profile"
    /\ IF profile # None
       THEN pc' = "config" /\ profile' = profile
       ELSE \E r \in ImageInfoResults :
                LET x == ExtractProfile(r.output, profile)
                IN  IF r.raised \/ ~ x.ok
                    THEN pc' = "return_detect" /\ profile' = profile
                    ELSE pc' = "config" /\ profile' = x.profile
    /\ UNCHANGED <<envVars, files, catalogVars, workerVars, reportVars>>
    /\ UNCHANGED mainVars

\* read tasklist.cfg; return when that fails
ReadConfig ==
    /\ pc = "config"
    /\ LET r == ReadTaskConfig(config)
       IN  IF r.ok
           THEN /\ pc' = "dispatch"
                /\ tasklist' = r.tasklist
                /\ tasklist_help' = r.tasklist_help
           ELSE /\ pc' = "return_config"
                /\ UNCHANGED <<tasklist, tasklist_help>>
    /\ UNCHANGED <<envVars, files, profile, tasks, total_tasks, workerVars, reportVars>>
    /\ UNCHANGED mainVars

\* the tasks handed to executor.submit: every item of the dict
SubmittedTasks(d, dir) == d

\* build the dict, create the ProgressManager, submit the tasks
Dispatch ==
    /\ pc = "dispatch"
    /\ LET d == BuildTasks(tasklist, task_filescanlist, profile)
           n == Len(SubmittedTasks(d, files))
       IN  /\ tasks' = d
           /\ st' = [i \in 1..n |-> "pending"]
           /\ result' = [i \in 1..n |-> NoResult]
           /\ outcome' = [i \in 1..n |-> "none"]
           /\ seen' = [i \in 1..n |-> 0]
    /\ total_tasks' = Len(tasklist) + Len(task_filescanlist)
    /\ completed_tasks' = 0
    /\ lock' = 0
    /\ pc' = "wait"
    /\ UNCHANGED <<envVars, files, profile, tasklist, tasklist_help, reportVars>>
    /\ UNCHANGED mainVars

(* ------------------------------ run_command ---------------------------- *)
\* the i-th submitted task
Submitted(i) == SubmittedTasks(tasks, files0)[i]

\* the output run_command decodes from the captured bytes
DecodeOutput(stdout) == DecodeIgnore(stdout)

\* the branch run_command takes
Classify(r) ==
    IF r.kind = "timeout" THEN "Timeout"
    ELSE IF r.kind = "error" THEN "ExecutionError"
    ELSE IF DecodeOutput(r.stdout) # <<>> THEN "Success"
    ELSE "EmptyOutput"

\* run_command that writes whatever it decoded, empty or not
PersistedAlways(dir, task_name, r) ==
    IF r.kind = "completed"
    THEN WriteText(dir, TaskFile(task_name), DecodeOutput(r.stdout))
    ELSE dir

\* run_command that keeps an output file that is already there
PersistedIfAbsent(dir, task_name, r) ==
    IF Classify(r) = "Success" /\ ~ Exists(dir, TaskFile(task_name))
    THEN WriteText(dir, TaskFile(task_name), DecodeOutput(r.stdout))
    ELSE dir

\* the output directory after run_command handled the result r
Persisted(dir, task_name, r) ==
    IF Classify(r) = "Success"
    THEN WriteText(dir, TaskFile(task_name), DecodeOutput(r.stdout))
    ELSE dir

\* run_command up to its notification: subprocess.run returns or raises,
\* the output is decoded, classified and, when not empty, written.  The
\* steps are one action because each task writes a file of its own and
\* reads nothing another task writes.
Run(i) ==
    /\ st[i] = "pending"
    /\ \E r \in RunResults :
           /\ result' = [result EXCEPT ![i] = r]
           /\ outcome' = [outcome EXCEPT ![i] = Classify(r)]
           /\ files' = Persisted(files, Submitted(i).name, r)
    /\ st' = [st EXCEPT ![i] = "notify"]
    /\ UNCHANGED <<pc, envVars, profile, catalogVars,
                   completed_tasks, lock, seen, reportVars>>
    /\ UNCHANGED mainVars

(* -------------------------- ProgressManager.update --------------------- *)
\* update without mutual exclusion
LockIgnored(l) == TRUE

\* whether "with self.lock" may be entered
LockAvailable(l) == l = 0

\* enter the lock and read completed_tasks
UpdateEnter(i) ==
    /\ st[i] = "notify"
    /\ LockAvailable(lock)
    /\ lock' = i
    /\ seen' = [seen EXCEPT ![i] = completed_tasks]
    /\ st' = [st EXCEPT ![i] = "locked"]
    /\ UNCHANGED <<pc, envVars, files, profile, catalogVars, result, outcome,
                   completed_tasks, reportVars>>
    /\ UNCHANGED mainVars

\* store completed_tasks + 1, make the tqdm calls and leave the lock.  When
\* the tqdm calls raise inside the try block of run_command (the branches
\* with and without output), "except Exception" takes over: the task is
\* logged as an execution error and update is called once more; raised
\* from an except clause, the exception leaves run_command.
UpdateExit(i) ==
    /\ st[i] = "locked"
    /\ completed_tasks' = seen[i] + 1
    /\ lock' = 0
    /\ seen' = [seen EXCEPT ![i] = 0]
    /\ IF ~ tqdm_ok /\ outcome[i] \in {"Success", "EmptyOutput"}
       THEN /\ outcome' = [outcome EXCEPT ![i] = "ExecutionError"]
            /\ st' = [st EXCEPT ![i] = "notify"]
       ELSE /\ outcome' = outcome
            /\ st' = [st EXCEPT ![i] = "done"]
    /\ UNCHANGED <<pc, envVars, files, profile, catalogVars, result, reportVars>>
    /\ UNCHANGED mainVars

(* ------------------------ waiting and the report ----------------------- *)
\* no waiting at all
NoBarrier(s) == TRUE

\* every future has completed
AllSettled(s) == \A i \in DOMAIN s : s[i] = "done"

\* waiting that re-raises the failure of a task, as future.result() would
WaitRaising ==
    /\ pc = "wait"
    /\ \A i \in DOMAIN st : st[i] = "done"
    /\ pc' = IF \E i \in DOMAIN st : outcome[i] \in {"Timeout", "ExecutionError"}
             THEN "raised" ELSE "report"
    /\ markdown' = <<>>
    /\ k' = 1
    /\ UNCHANGED <<envVars, files, profile, catalogVars, workerVars>>
    /\ UNCHANGED mainVars

\* concurrent.futures.wait(futures) and the exit of the executor's with
\* block, then progress_manager.close() and the call of generate_markdown
Wait ==
    /\ pc = "wait"
    /\ AllSettled(st)
    /\ pc' = "report"
    /\ markdown' = <<>>
    /\ k' = 1
    /\ UNCHANGED <<envVars, files, profile, catalogVars, workerVars>>
    /\ UNCHANGED mainVars

\* one iteration of the loop over tasks.keys()
ReportStep ==
    /\ pc = "report"
    /\ k <= Len(tasks)
    /\ markdown' = markdown \o SectionEntries(tasks[k].name, files, tasklist,
                       tasklist_help, task_filescanlist, task_filescanlist_help)
    /\ k' = k + 1
    /\ UNCHANGED <<pc, envVars, files, profile, catalogVars, workerVars>>
    /\ UNCHANGED mainVars

\* write summary.md; generate_markdown and analyze_memory_dump return
ReportWrite ==
    /\ pc = "report"
    /\ k > Len(tasks)
    /\ files' = WriteText(files, SummaryFile, Join(markdown, "\n"))
    /\ pc' = "done"
    /\ UNCHANGED <<envVars, profile, catalogVars, workerVars, reportVars>>
    /\ UNCHANGED mainVars

\* analyze_memory_dump has returned or raised
Ended == pc \in {"raised", "return_dump", "return_detect", "return_config", "done"}

\* an exit status that counts the failures of tasks
MainExitOnTaskFailure ==
    /\ Ended
    /\ exit_status = -1
    /\ exit_status' =
           IF pc = "raised" \/ \E i \in DOMAIN st : outcome[i] # "Success"
           THEN 1 ELSE 0
    /\ UNCHANGED <<pc, envVars, files, profile, catalogVars, workerVars,
                   reportVars, remaining>>

\* main: sys.exit(1) when analyze_memory_dump raised, else the process
\* ends with status 0
MainExit ==
    /\ Ended
    /\ exit_status = -1
    /\ exit_status' = IF pc = "raised" THEN 1 ELSE 0
    /\ UNCHANGED <<pc, envVars, files, profile, catalogVars, workerVars,
                   reportVars, remaining>>

\* a call of get_remaining_tasks(output_path, tasks)
CallOracle ==
    /\ pc = "oracle"
    /\ remaining' = get_remaining_tasks(files, tasks)
    /\ pc' = "oracle_done"
    /\ UNCHANGED <<envVars, files, profile, catalogVars, workerVars,
                   reportVars, exit_status>>

Worker(i) ==
    /\ i \in DOMAIN st
    /\ (Run(i) \/ UpdateEnter(i) \/ UpdateExit(i))

Next ==
    \/ Mkdir
    \/ DumpFiles
    \/ GetProfile
    \/ ReadConfig
    \/ Dispatch
    \/ \E i \in DOMAIN st : Worker(i)
    \/ Wait
    \/ ReportStep
    \/ ReportWrite
    \/ MainExit

Spec == Init /\ [][Next]_vars

\* no line of tasklist.cfg is repeated
NoRepeatedLine ==
    \A i, j \in 1..Len(config.lines) : config.lines[i] = config.lines[j] => i = j

\* Starting points for file-dump mode: every combination of dumpfiles,
\* dumpfiles_location and profile, with an empty output directory
DumpInit ==
    /\ Entry
    /\ tqdm_ok
    /\ files0 = {}
    /\ NoRepeatedLine

DumpSpec == DumpInit /\ [][Next]_vars

\* Starting points with a progress bar that works or fails
ObserverInit ==
    /\ Entry
    /\ ~ dumpfiles
    /\ dumpfiles_location = None
    /\ profile = GivenProfile
    /\ files0 = {}
    /\ NoRepeatedLine

ObserverSpec == ObserverInit /\ [][Next]_vars

\* the files a directory given to get_remaining_tasks may hold
OracleFiles ==
    {[path |-> TaskFile(n), content |-> <<"o">>] :
         n \in {<<"pslist">>, <<"filescan">>} \cup
                 {FilterTaskName(task_filescanlist[i]) : i \in 1..Len(task_filescanlist)}}

\* get_remaining_tasks is given the dict built from any readable
\* tasklist.cfg and any directory
OracleInit ==
    /\ pc = "oracle"
    /\ config \in Configs
    /\ ReadTaskConfig(config).ok
    /\ files0 \in SUBSET OracleFiles
    /\ files = files0
    /\ profile \in {None, GivenProfile}
    /\ dumpfiles = FALSE
    /\ dumpfiles_location = None
    /\ tqdm_ok = TRUE
    /\ exit_status = -1
    /\ remaining = <<>>
    /\ tasklist = ReadTaskConfig(config).tasklist
    /\ tasklist_help = ReadTaskConfig(config).tasklist_help
    /\ tasks = BuildTasks(tasklist, task_filescanlist, profile)
    /\ st = <<>>
    /\ result = <<>>
    /\ outcome = <<>>
    /\ completed_tasks = 0
    /\ total_tasks = 0
    /\ lock = 0
    /\ seen = <<>>
    /\ markdown = <<>>
    /\ k = 0

OracleNext == CallOracle

OracleSpec == OracleInit /\ [][OracleNext]_vars

\* Starting points of the liveness specification: the profile is given,
\* the output directory is empty or holds an unreadable pslist.txt, and no
\* line of tasklist.cfg is repeated.  What is left out (the detection, a
\* readable stale file, a repeated line) changes no step between the
\* dispatch and the end of generate_markdown.
LiveInit ==
    /\ Init
    /\ profile = GivenProfile
    /\ \A f \in files0 : ~ DecodesStrict(f.content)
    /\ NoRepeatedLine

\* the main thread and every thread of the pool keep running
FairSpec ==
    /\ LiveInit
    /\ [][Next]_vars
    /\ WF_vars(Mkdir \/ DumpFiles \/ GetProfile \/ ReadConfig \/ Dispatch
                 \/ Wait \/ ReportStep \/ ReportWrite \/ MainExit)
    /\ \A i \in 1..(MaxLines + MaxFilterTerms) : WF_vars(Worker(i))

(* ------------------------------- claims -------------------------------- *)
\* names of the tasks that were handed to the pool, in submission order
SubmittedNames == [i \in DOMAIN st |-> Submitted(i).name]

Dispatched == pc \in {"wait", "report", "done"}

\* C1: on a run against a directory that already holds output files, no
\* task whose <name>.txt existed when the run started is invoked, and the
\* tasks submitted are exactly those get_remaining_tasks returns.
C1_ResumeSkipsCompleted ==
    (Dispatched /\ profile # None) =>
        /\ SubmittedNames = get_remaining_tasks(files0, tasks)
        /\ \A i \in DOMAIN st :
               Exists(files0, TaskFile(SubmittedNames[i])) => st[i] = "pending"

\* C2: every submitted task notifies the progress manager exactly once:
\* completed_tasks always equals the number of tasks whose run_command has
\* returned, and equals the number of submitted tasks once all have settled.
C2_OneNotificationPerTask ==
    Dispatched =>
        /\ completed_tasks = Cardinality({i \in DOMAIN st : st[i] = "done"})
        /\ (\A i \in DOMAIN st : st[i] = "done") => completed_tasks = Len(st)

C2_Witness ==
    /\ pc = "wait"
    /\ \A i \in DOMAIN st : st[i] = "done"
    /\ \E i, j \in DOMAIN st : outcome[i] = "Timeout" /\ outcome[j] = "Success"
    /\ completed_tasks >= 2

RECURSIVE Dedup(_)
\* the first occurrences of the elements of a sequence, in order
Dedup(seq) ==
    IF seq = <<>> THEN <<>>
    ELSE LET init == Dedup(SubSeq(seq, 1, Len(seq) - 1))
             last == seq[Len(seq)]
         IN  IF \E i \in 1..Len(init) : init[i] = last THEN init
             ELSE Append(init, last)

\* the catalog: catalog tasks in configuration order, then filter tasks in
\* filter-list order
ExpectedNames ==
    Dedup(tasklist \o [i \in 1..Len(task_filescanlist) |->
                            FilterTaskName(task_filescanlist[i])])

\* the help text a task has by its family
HelpOf(name) ==
    IF \E i \in 1..Len(tasklist) : tasklist[i] = name
    THEN tasklist_help[Index(tasklist, name)]
    ELSE task_filescanlist_help[
             CHOOSE i \in 1..Len(task_filescanlist) :
                 FilterTaskName(task_filescanlist[i]) = name]

BodyOf(name) ==
    IF Exists(files, TaskFile(name))
    THEN Fenced(ReadBytes(files, TaskFile(name)))
    ELSE Placeholder

RECURSIVE ExpectedSections(_)
ExpectedSections(names) ==
    IF names = <<>> THEN <<>>
    ELSE <<Heading(Head(names), HelpOf(Head(names))), BodyOf(Head(names))>>
             \o ExpectedSections(Tail(names))

\* C3: the report written by generate_markdown holds exactly one section
\* (heading with help text, then body) per task of the catalog, catalog
\* tasks in configuration order followed by filter tasks in filter-list
\* order; a task without an output file gets the placeholder body.  (Stated
\* for runs with a profile in which every file can be read.)
C3_ReportComplete ==
    (pc = "done" /\ profile # None /\ \A f \in files : DecodesStrict(f.content)) =>
        /\ Exists(files, SummaryFile)
        /\ ReadBytes(files, SummaryFile) = Join(ExpectedSections(ExpectedNames), "\n")

\* whether the i-th task's invocation returned in time with output that
\* decodes to something non-empty
Succeeded(i) ==
    /\ st[i] \in {"notify", "locked", "done"}
    /\ result[i].kind = "completed"
    /\ DecodeIgnore(result[i].stdout) # <<>>

C5_TimeoutLeavesNoFile ==
    \A i \in DOMAIN st :
        (st[i] \in {"notify", "locked", "done"} /\ result[i].kind = "timeout"
             /\ profile # None) =>
            /\ outcome[i] = "Timeout"
            /\ pc = "done" => ~ Exists(files, TaskFile(SubmittedNames[i]))

\* C6: once the catalog is read and the output directory exists, the run
\* reaches the end of generate_markdown with summary.md written, whatever
\* the outcomes of the tasks.
C6_AlwaysReports ==
    (pc = "dispatch") ~> (pc = "done" /\ Exists(files, SummaryFile))

C6_Witness ==
    /\ pc = "done"
    /\ Exists(files, SummaryFile)
    /\ Len(st) >= 2
    /\ \A i \in DOMAIN st : outcome[i] \in {"Timeout", "ExecutionError", "EmptyOutput"}
    /\ \E i, j \in DOMAIN st : outcome[i] = "Timeout" /\ outcome[j] = "ExecutionError"

\* C7: while generate_markdown runs and after it has written the report,
\* every submitted task has settled: nothing is appended to the report and
\* summary.md does not exist while a worker is still in run_command.
C7_BarrierBeforeReport ==
    (pc \in {"report", "done"} \/ markdown # <<>> \/ Exists(files, SummaryFile))
        => \A i \in DOMAIN st : st[i] = "done"

C7_Witness ==
    /\ pc = "report"
    /\ k = 2
    /\ markdown # <<>>
    /\ Len(st) >= 2
    /\ \E i \in DOMAIN st : outcome[i] = "Success"

\* C8: when no profile is given and the detection extracts none, the run
\* aborts: no task is dispatched and no report is written.
C8_NoProfileAborts ==
    (pc \notin {"start", "profile"} /\ profile = None) =>
        /\ st = <<>>
        /\ ~ Exists(files, SummaryFile)

\* tasklist.cfg cannot be read or has a line without the separator
ConfigBad ==
    \/ ~ config.readable
    \/ \E i \in 1..Len(config.lines) : ~ Contains(config.lines[i], "-")

\* C9: with tasklist.cfg unreadable or holding a line without '-', the run
\* ends before dispatch: no task is built or invoked, the output directory
\* is as it was, and there is no report.
C9_BadConfigAborts ==
    ConfigBad =>
        /\ pc \notin {"dispatch", "wait", "report", "done"}
        /\ tasks = <<>>
        /\ st = <<>>
        /\ files = files0
        /\ ~ Exists(files, SummaryFile)

C9_Witness ==
    /\ pc = "return_config"
    /\ config.readable
    /\ Len(config.lines) = 2
    /\ Contains(config.lines[1], "-")
    /\ ~ Contains(config.lines[2], "-")

RECURSIVE SectionNames(_)
\* the task names of the heading entries of a markdown list, in order
SectionNames(md) ==
    IF md = <<>> THEN <<>>
    ELSE (IF Head(md)[1] = "# "
          THEN <<Split(Tail(Head(md)), "\n")[1]>> ELSE <<>>)
             \o SectionNames(Tail(md))

\* the iteration of generate_markdown for the j-th task fails
SectionFails(j) ==
    \/ ~ ResolveHelp(tasks[j].name, tasklist, tasklist_help,
                     task_filescanlist, task_filescanlist_help).ok
    \/ /\ Exists(files, TaskFile(tasks[j].name))
       /\ ~ DecodesStrict(ReadBytes(files, TaskFile(tasks[j].name)))

\* C10: a task whose help text cannot be resolved or whose file cannot be
\* read has no part of its section in the report (no heading either), the
\* other tasks have theirs, and the report is written.
C10_FailedSectionOmitted ==
    (pc = "done" /\ profile # None) =>
        /\ Exists(files, SummaryFile)
        /\ \A j \in DOMAIN tasks :
               LET present == \E n \in DOMAIN SectionNames(markdown) :
                                  SectionNames(markdown)[n] = tasks[j].name
               IN  present <=> ~ SectionFails(j)

\* the fatal run-level failures: analyze_memory_dump raised (the output
\* directory could not be created, or another error nobody caught), or it
\* gave up on an unreadable or malformed tasklist.cfg
FatalFailure == pc \in {"raised", "return_config"}

\* C11: the process exits with a non-zero status only on a fatal run-level
\* failure, and a run that dispatched its tasks and wrote its report exits
\* with status 0 whatever the outcomes of the tasks were.
C11_ExitStatus ==
    /\ exit_status \in {-1, 0, 1}
    /\ exit_status = 1 => FatalFailure
    /\ (Dispatched /\ exit_status # -1) => exit_status = 0

C11_Witness ==
    /\ pc = "done"
    /\ exit_status = 0
    /\ \E i, j \in DOMAIN st :
           outcome[i] = "Timeout" /\ outcome[j] = "ExecutionError"

\* position of a task name in the dict, 0 when it is no key
PositionOf(name) ==
    IF \E j \in DOMAIN tasks : tasks[j].name = name
    THEN CHOOSE j \in DOMAIN tasks : tasks[j].name = name
    ELSE 0

\* C12: get_remaining_tasks returns exactly the names of the tasks whose
\* <name>.txt does not exist, in the order of the dict, and leaves the
\* dict and the directory as they were.
C12_OracleExact ==
    pc = "oracle_done" =>
        /\ files = files0
        /\ tasks = BuildTasks(tasklist, task_filescanlist, profile)
        /\ \A j \in DOMAIN tasks :
               (\E n \in DOMAIN remaining : remaining[n] = tasks[j].name)
                   <=> ~ \E f \in files : f.path = tasks[j].name \o <<".txt">>
        /\ \A n \in DOMAIN remaining : PositionOf(remaining[n]) # 0
        /\ \A m, n \in DOMAIN remaining :
               m < n => PositionOf(remaining[m]) < PositionOf(remaining[n])

C12_Witness ==
    /\ pc = "oracle_done"
    /\ Len(tasks) = 3
    /\ remaining = <<tasks[1].name, tasks[3].name>>
    /\ Exists(files, TaskFile(tasks[2].name))

\* C13: the step of run_command that settles a task with EmptyOutput,
\* ExecutionError (or Timeout) leaves the output directory as it is; a step
\* that settles a task with Success changes at most that task's file; and
\* nothing else changes the directory except the writing of the report.
C13_FailurePersistsNothing ==
    [][ /\ \A i \in DOMAIN st :
               (st[i] = "pending" /\ i \in DOMAIN st' /\ st'[i] # "pending") =>
                   IF outcome'[i] = "Success"
                   THEN {f \in files' : f.path # TaskFile(tasks[i].name)}
                            = {f \in files : f.path # TaskFile(tasks[i].name)}
                   ELSE files' = files
        /\ files' # files =>
               \/ pc = "report" /\ pc' = "done"
               \/ \E i \in DOMAIN st :
                      st[i] = "pending" /\ i \in DOMAIN st' /\ outcome'[i] = "Success"
      ]_vars

C13_Witness ==
    /\ pc = "wait"
    /\ files = files0
    /\ \E i, j \in DOMAIN st :
           /\ st[i] = "done" /\ outcome[i] = "EmptyOutput"
           /\ st[j] = "done" /\ outcome[j] = "ExecutionError"
           /\ Exists(files0, TaskFile(tasks[i].name))

\* the output directory after the tasks 1..n ran one after the other, in the
\* order of the dict
RECURSIVE DirAfter(_)
DirAfter(n) ==
    IF n = 0 THEN files0
    ELSE Persisted(DirAfter(n - 1), tasks[n].name, result[n])

\* the sections of the tasks n.., read from the directory dir
RECURSIVE SectionsFrom(_, _)
SectionsFrom(n, dir) ==
    IF n > Len(tasks) THEN <<>>
    ELSE SectionEntries(tasks[n].name, dir, tasklist, tasklist_help,
                        task_filescanlist, task_filescanlist_help)
             \o SectionsFrom(n + 1, dir)

\* C14: the report and the output files of a finished run are a function of
\* the tasks, their help texts, the files of the earlier run and what each
\* command produced: they are what a run executing the tasks one after the
\* other in the order of the dict leaves, whatever the order in which the
\* workers ran and notified.
C14_ReportDeterministic ==
    pc = "done" =>
        /\ {f \in files : f.path # SummaryFile} = DirAfter(Len(tasks))
        /\ Exists(files, SummaryFile)
        /\ ReadBytes(files, SummaryFile)
               = Join(SectionsFrom(1, DirAfter(Len(tasks))), "\n")

C14_Witness ==
    /\ pc = "done"
    /\ Len(tasks) = 3
    /\ outcome[1] = "Timeout" /\ outcome[2] = "Success" /\ outcome[3] = "Success"
    /\ ReadBytes(files, TaskFile(tasks[2].name)) # ReadBytes(files, TaskFile(tasks[3].name))
    /\ Len(markdown) >= 4

\* C15: two different submitted tasks never have the same output path, so
\* no file is written by two workers.
C15_DistinctPaths ==
    Dispatched =>
        \A i, j \in DOMAIN st :
            i # j => TaskFile(Submitted(i).name) # TaskFile(Submitted(j).name)

C15_Witness ==
    /\ pc = "wait"
    /\ Len(tasklist) = 2
    /\ tasklist[1] = tasklist[2]
    /\ Len(tasks) = 2
    /\ \A i \in DOMAIN st : st[i] = "done" /\ outcome[i] = "Success"

\* C16: for every task name of the dict, the lookup of generate_markdown
\* succeeds and gives the help text of the task's family: the description
\* of its configuration line for a catalog task, the description of its
\* filter term for a filter task.
C16_HelpByFamily ==
    (Dispatched /\ profile # None) =>
        \A j \in DOMAIN tasks :
            LET help == ResolveHelp(tasks[j].name, tasklist, tasklist_help,
                                    task_filescanlist, task_filescanlist_help)
            IN  help.ok /\ help.text = HelpOf(tasks[j].name)

\* C17: a run in which the notifications of the progress manager fail
\* ends with the same output files, the same outcome for every task and
\* the same report as a run in which they succeed: the outcome of each
\* task is the one its command result alone decides.
C17_ObserverOnly ==
    pc = "done" =>
        /\ \A i \in DOMAIN st : outcome[i] = Classify(result[i])
        /\ {f \in files : f.path # SummaryFile} = DirAfter(Len(tasks))
        /\ ReadBytes(files, SummaryFile)
               = Join(SectionsFrom(1, DirAfter(Len(tasks))), "\n")

\* C18: when <name>.txt is there from an earlier run and the task settles
\* with Timeout, EmptyOutput or ExecutionError, the file keeps its earlier
\* content and the report has, after the heading of the task, that content
\* in a code fence and not the placeholder.  (Stated for runs with a
\* profile.)
C18_StaleResultEmbedded ==
    (pc = "done" /\ profile # None) =>
        \A i \in DOMAIN st :
            LET name == tasks[i].name
            IN  (/\ outcome[i] \in {"Timeout", "EmptyOutput", "ExecutionError"}
                 /\ Exists(files0, TaskFile(name))
                 /\ DecodesStrict(ReadBytes(files0, TaskFile(name)))) =>
                    /\ Exists(files, TaskFile(name))
                    /\ ReadBytes(files, TaskFile(name)) = ReadBytes(files0, TaskFile(name))
                    /\ \E n \in 1..(Len(markdown) - 1) :
                           /\ markdown[n] = Heading(name, HelpOf(name))
                           /\ markdown[n + 1] = Fenced(ReadBytes(files0, TaskFile(name)))

\* C19: called with dumpfiles set, a profile and a dump location,
\* analyze_memory_dump goes from the export straight to its return, whether
\* the export succeeded or failed; when it returns there the tasks dict is
\* empty, nothing was submitted, the output directory is as it was at the
\* start and holds no summary.md.
C19_DumpModeOnlyExports ==
    [][ /\ (pc = "dumpfiles" /\ dumpfiles /\ profile # None
               /\ dumpfiles_location # None /\ pc' # pc) => pc' = "return_dump"
        /\ pc' = "return_dump" =>
               /\ tasks' = <<>> /\ tasklist' = <<>>
               /\ st' = <<>> /\ completed_tasks' = 0
               /\ files' = files0'
               /\ ~ Exists(files', SummaryFile)
      ]_vars

C19_Witness ==
    /\ pc = "return_dump"
    /\ dumpfiles /\ profile = GivenProfile /\ dumpfiles_location = GivenLocation
    /\ config.readable
    /\ tasks = <<>> /\ st = <<>>
    /\ files = files0
    /\ exit_status = 0

\* C20: completed_tasks never exceeds the total the ProgressManager was
\* created with, and once every task has settled it equals that total, also
\* when tasklist.cfg repeats a task name.  (Stated for runs with a profile.)
C20_ProgressReachesTotal ==
    profile # None =>
        /\ completed_tasks <= total_tasks
        /\ pc \in {"report", "done"} => completed_tasks = total_tasks

====
